---- MODULE Spec2Model ----
(***************************************************************************)
(* Model of the kernel session manager of crates/runtimes/src/runtimes.rs: *)
(* RuntimeManager (the runtime catalog `runtimes`, the session map         *)
(* `instances`), acquire_shell_request_tx, execute_code and the kernel     *)
(* side of the control channel; and of crates/assistant/src/               *)
(* slash_command.rs: the cancel flag of SlashCommandCompletionProvider and *)
(* SlashCommandLine::parse.                                                *)
(***************************************************************************)
EXTENDS Integers, Sequences, FiniteSets, TLC

\* ---------------------------------------------------------------- bounds
\* Number of execute_code calls issued in one behaviour.
MaxCalls == 2
\* Number of editors (EntityId values) that issue calls.
NumKeys == 2
\* Number of updates the kernel puts into one request's sink.
MaxUpdates == 2
\* Number of complete_command_argument calls in one behaviour.
MaxCompletions == 4
\* Number of characters of a line handed to SlashCommandLine::parse.
MaxLen == 5

Calls == 1..MaxCalls
Keys == 1..NumKeys
\* A kernel is named after the call whose spawned task launched it.
KernelIds == Calls

\* ------------------------------------------------------------ the catalog
Languages == {"python", "ruby", "julia"}

NoRuntime == [name |-> "none", language |-> "none"]

Python3 == [name |-> "python3", language |-> "python"]
PyPy == [name |-> "pypy", language |-> "python"]
Ruby == [name |-> "ruby", language |-> "ruby"]

\* What get_runtimes can hand to the manager once discovery completes.
DiscoveredCatalogs ==
    { <<Python3>>, <<PyPy, Ruby, Python3>> }

VARIABLES
    runtimes,    \* RuntimeManager.runtimes: Vec<Runtime>
    discovery,   \* the task spawned by init: "pending" or "done"
    instances,   \* RuntimeManager.instances: the entries of the HashMap
    call,        \* per execute_code call: position and locals, and the
                 \* consumer of the stream it returned
    kstate,      \* per kernel: "none", "alive" or "dead"
    kqueue,      \* per kernel: requests queued on its control channel
    kactive,     \* per kernel: requests the kernel holds (with their sinks)
    sink,        \* per sink: the updates put into it
    flags,       \* the AtomicBool cancel flags allocated so far, in order
    cancel_flag, \* SlashCommandCompletionProvider.cancel_flag: the flag
                 \* the mutex holds, as its place in `flags`
    handed,      \* the flags passed to a command's complete_argument
    running,     \* the flags whose completion task has not ended
    line,        \* the text handed to SlashCommandLine::parse
    returned,    \* parse has returned
    parsed       \* what parse returned: <<>> is None, <<c>> is Some(c)

managerVars ==
    <<runtimes, discovery, instances, call, kstate, kqueue, kactive, sink>>
providerVars == <<flags, cancel_flag, handed, running>>
parseVars == <<line, returned, parsed>>

vars == <<managerVars, providerVars, parseVars>>

\* ExecutionId::new() is fresh for every call; the handshake gets its own.
ExecutionIdOf(c) == c
HandshakeIdOf(c) == 0 - c
SinkIds == Calls \cup { HandshakeIdOf(c) : c \in Calls }

\* ----------------------------------------------------- the session map
\* HashMap::get
HasInstance(m, key) == \E e \in m : e.key = key
GetInstance(m, key) == (CHOOSE e \in m : e.key = key).kernel

\* A Vec-like push that keeps the old entry.
InsertInstance_Push(m, key, kernel) ==
    m \cup { [key |-> key, kernel |-> kernel] }

\* HashMap::insert: the entry of the key is replaced.
InsertInstance(m, key, kernel) ==
    { e \in m : e.key # key } \cup { [key |-> key, kernel |-> kernel] }

\* The last runtime of the language wins.
FindRuntime_LastMatch(rs, language) ==
    IF \E i \in 1..Len(rs) : rs[i].language = language
    THEN rs[CHOOSE i \in 1..Len(rs) :
                /\ rs[i].language = language
                /\ \A j \in (i + 1)..Len(rs) : rs[j].language # language]
    ELSE NoRuntime

\* A lookup that falls back to the first runtime of the catalog.
FindRuntime_FirstAsDefault(rs, language) ==
    IF \E i \in 1..Len(rs) : rs[i].language = language
    THEN rs[CHOOSE i \in 1..Len(rs) :
                /\ rs[i].language = language
                /\ \A j \in 1..(i - 1) : rs[j].language # language]
    ELSE IF rs # <<>> THEN rs[1] ELSE NoRuntime

\* runtimes.iter().find(|runtime| runtime.spec.language == language_name)
FindRuntime(rs, language) ==
    IF \E i \in 1..Len(rs) : rs[i].language = language
    THEN rs[CHOOSE i \in 1..Len(rs) :
                /\ rs[i].language = language
                /\ \A j \in 1..(i - 1) : rs[j].language # language]
    ELSE NoRuntime

\* ------------------------------------------------------------- requests
HandshakeRequest(c) ==
    [kind |-> "KernelInfoRequest", execution_id |-> HandshakeIdOf(c),
     iopub_sender |-> HandshakeIdOf(c)]

ExecuteRequest(c) ==
    [kind |-> "ExecuteRequest", execution_id |-> ExecutionIdOf(c),
     iopub_sender |-> call[c].rx]

\* The updates for execution id `id` among those of a sequence.
UpdatesFor(id, seq) == { i \in 1..Len(seq) : seq[i].execution_id = id }

\* The number of updates sent so far for a request: those in its sink and
\* those a consumer has taken out.
Emitted(r) ==
    Cardinality(UpdatesFor(r.execution_id, sink[r.iopub_sender]))
    + Cardinality({ p \in Calls \X (1..MaxUpdates) :
                      /\ p[2] <= Len(call[p[1]].got)
                      /\ call[p[1]].got[p[2]].execution_id = r.execution_id })

\* The next update of a request: tagged with the request's execution id,
\* its content numbered in the order of sending.
Update(r) == [execution_id |-> r.execution_id, content |-> Emitted(r) + 1]

\* A sink is open while some request holding its sender is alive.
SinkOpen(s) ==
    \E k \in KernelIds :
        \/ \E r \in kactive[k] : r.iopub_sender = s
        \/ \E i \in 1..Len(kqueue[k]) : kqueue[k][i].iopub_sender = s

\* ----------------------------------------------------------------- Init
IdleCall ==
    [pc |-> "idle", key |-> 0, language |-> "none", runtime |-> NoRuntime,
     rx |-> 0, retry |-> FALSE, acq |-> "none", tx |-> 0,
     waitEnd |-> "none", result |-> "none", stream |-> "none", got |-> <<>>]

\* No completion provider has been constructed.
NoProvider ==
    /\ flags = <<>>
    /\ cancel_flag = 0
    /\ handed = {}
    /\ running = {}

\* No line is being parsed.
NoLine ==
    /\ line = <<>>
    /\ returned = FALSE
    /\ parsed = <<>>

Init ==
    /\ runtimes = <<>>
    /\ discovery = "pending"
    /\ instances = {}
    /\ call = [c \in Calls |-> IdleCall]
    /\ kstate = [k \in KernelIds |-> "none"]
    /\ kqueue = [k \in KernelIds |-> <<>>]
    /\ kactive = [k \in KernelIds |-> {}]
    /\ sink = [s \in SinkIds |-> <<>>]
    /\ NoProvider
    /\ NoLine

\* ------------------------------------------------------------- discovery
\* Only the first discovered runtime makes it into the catalog.
SetRuntimes_Partial(rs) ==
    /\ discovery = "pending"
    /\ runtimes' = SubSeq(rs, 1, 1)
    /\ discovery' = "done"
    /\ UNCHANGED <<instances, call, kstate, kqueue, kactive, sink>>

\* init: get_runtimes(fs).await succeeded, this.runtimes = runtimes
SetRuntimes(rs) ==
    /\ discovery = "pending"
    /\ runtimes' = rs
    /\ discovery' = "done"
    /\ UNCHANGED <<instances, call, kstate, kqueue, kactive, sink>>

\* ------------------------------------------------------- execute_code
\* One channel shared by all calls.
NewSink_Shared(c) == 1

\* let (tx, rx) = mpsc::unbounded(): a channel of the call's own.
NewSink(c) == c

\* Some earlier launch for the key has failed (history, read by no code).
LaunchFailedBefore(key) ==
    \E d \in Calls : call[d].key = key /\ call[d].acq = "KernelLaunchFailed"

\* The locals of a call that has just been issued.
Started(c, key, language) ==
    [call[c] EXCEPT !.key = key, !.language = language, !.rx = NewSink(c),
                    !.retry = LaunchFailedBefore(key)]

\* The catalog is consulted before the session map.
AcquireShellRequestTx_CatalogFirst(c, key, language) ==
    LET runtime == FindRuntime(runtimes, language)
        started == Started(c, key, language)
    IN  IF runtime = NoRuntime
        THEN call' = [call EXCEPT ![c] =
                 [started EXCEPT !.pc = "ready", !.acq = "RuntimeNotFound"]]
        ELSE IF HasInstance(instances, key)
        THEN call' = [call EXCEPT ![c] =
                 [started EXCEPT !.pc = "ready", !.acq = "ok",
                                 !.tx = GetInstance(instances, key)]]
        ELSE call' = [call EXCEPT ![c] =
                 [started EXCEPT !.pc = "launching", !.runtime = runtime]]

\* A failed launch of the key is remembered and answered without a launch.
AcquireShellRequestTx_CachedFailure(c, key, language) ==
    LET runtime == FindRuntime(runtimes, language)
        started == Started(c, key, language)
    IN  IF HasInstance(instances, key)
        THEN call' = [call EXCEPT ![c] =
                 [started EXCEPT !.pc = "ready", !.acq = "ok",
                                 !.tx = GetInstance(instances, key)]]
        ELSE IF runtime = NoRuntime
        THEN call' = [call EXCEPT ![c] =
                 [started EXCEPT !.pc = "ready", !.acq = "RuntimeNotFound"]]
        ELSE IF LaunchFailedBefore(key)
        THEN call' = [call EXCEPT ![c] =
                 [started EXCEPT !.pc = "ready", !.acq = "KernelLaunchFailed"]]
        ELSE call' = [call EXCEPT ![c] =
                 [started EXCEPT !.pc = "launching", !.runtime = runtime]]

\* acquire_shell_request_tx, the synchronous part: cache hit, catalog
\* lookup, or the spawn of the launching task.
AcquireShellRequestTx(c, key, language) ==
    LET runtime == FindRuntime(runtimes, language)
        started == Started(c, key, language)
    IN  IF HasInstance(instances, key)
        THEN call' = [call EXCEPT ![c] =
                 [started EXCEPT !.pc = "ready", !.acq = "ok",
                                 !.tx = GetInstance(instances, key)]]
        ELSE IF runtime = NoRuntime
        THEN call' = [call EXCEPT ![c] =
                 [started EXCEPT !.pc = "ready", !.acq = "RuntimeNotFound"]]
        ELSE call' = [call EXCEPT ![c] =
                 [started EXCEPT !.pc = "launching", !.runtime = runtime]]

\* A session whose kernel is dead is taken out of the map and launched anew.
ExecuteCode_RelaunchDead(c, key, language) ==
    /\ call[c].pc = "idle"
    /\ c > 1 => call[c - 1].pc # "idle"
    /\ \A j \in 1..(key - 1) : \E d \in Calls : call[d].key = j
    /\ IF /\ HasInstance(instances, key)
          /\ kstate[GetInstance(instances, key)] = "dead"
          /\ FindRuntime(runtimes, language) # NoRuntime
       THEN /\ instances' = { e \in instances : e.key # key }
            /\ call' = [call EXCEPT ![c] =
                   [Started(c, key, language) EXCEPT
                       !.pc = "launching",
                       !.runtime = FindRuntime(runtimes, language)]]
       ELSE /\ AcquireShellRequestTx(c, key, language)
            /\ UNCHANGED instances
    /\ UNCHANGED <<runtimes, discovery, kstate, kqueue, kactive, sink>>

\* execute_code up to the returned future: the sink is created and the
\* control sender is acquired.  Calls are numbered in the order of issue
\* and editors in the order of their first call.
ExecuteCode(c, key, language) ==
    /\ call[c].pc = "idle"
    /\ c > 1 => call[c - 1].pc # "idle"
    /\ \A j \in 1..(key - 1) : \E d \in Calls : call[d].key = j
    /\ AcquireShellRequestTx(c, key, language)
    /\ UNCHANGED <<runtimes, discovery, instances, kstate, kqueue, kactive,
                   sink>>

\* ------------------------------------------- the spawned launching task
\* The failed launch leaves an entry in the session map.
LaunchFails_Installs(c) ==
    /\ call[c].pc = "launching"
    /\ call' = [call EXCEPT ![c].pc = "ready", ![c].runtime = NoRuntime,
                            ![c].acq = "KernelLaunchFailed"]
    /\ instances' = InsertInstance(instances, call[c].key, c)
    /\ UNCHANGED <<runtimes, discovery, kstate, kqueue, kactive, sink>>

\* RunningKernel::new(..).await? fails: the task ends with the error.
LaunchFails(c) ==
    /\ call[c].pc = "launching"
    /\ call' = [call EXCEPT ![c].pc = "ready", ![c].runtime = NoRuntime,
                            ![c].acq = "KernelLaunchFailed"]
    /\ UNCHANGED <<runtimes, discovery, instances, kstate, kqueue, kactive,
                   sink>>

\* The kernel is installed as soon as it is launched, before the handshake.
LaunchSucceeds_InstallsEarly(c) ==
    /\ call[c].pc = "launching"
    /\ kstate' = [kstate EXCEPT ![c] = "alive"]
    /\ kqueue' = [kqueue EXCEPT ![c] = <<HandshakeRequest(c)>>]
    /\ instances' = InsertInstance(instances, call[c].key, c)
    /\ call' = [call EXCEPT ![c].pc = "wait", ![c].runtime = NoRuntime]
    /\ UNCHANGED <<runtimes, discovery, kactive, sink>>

\* The launched kernel gets no kernel-info request before the wait.
LaunchSucceeds_SkipsHandshake(c) ==
    /\ call[c].pc = "launching"
    /\ kstate' = [kstate EXCEPT ![c] = "alive"]
    /\ call' = [call EXCEPT ![c].pc = "wait", ![c].runtime = NoRuntime]
    /\ UNCHANGED <<runtimes, discovery, instances, kqueue, kactive, sink>>

\* RunningKernel::new succeeds and the kernel-info request is sent.
LaunchSucceeds(c) ==
    /\ call[c].pc = "launching"
    /\ kstate' = [kstate EXCEPT ![c] = "alive"]
    /\ kqueue' = [kqueue EXCEPT ![c] = <<HandshakeRequest(c)>>]
    /\ call' = [call EXCEPT ![c].pc = "wait", ![c].runtime = NoRuntime]
    /\ UNCHANGED <<runtimes, discovery, instances, kactive, sink>>

\* The error of the kernel-info send is ignored and the session installed.
HandshakeSendFails_Swallowed(c) ==
    /\ call[c].pc = "launching"
    /\ kstate' = [kstate EXCEPT ![c] = "dead"]
    /\ instances' = InsertInstance(instances, call[c].key, c)
    /\ call' = [call EXCEPT ![c].pc = "ready", ![c].runtime = NoRuntime,
                            ![c].acq = "ok", ![c].tx = c]
    /\ UNCHANGED <<runtimes, discovery, kqueue, kactive, sink>>

\* RunningKernel::new succeeds but the control channel is closed when the
\* kernel-info request is sent: send(..).await? ends the task.
HandshakeSendFails(c) ==
    /\ call[c].pc = "launching"
    /\ kstate' = [kstate EXCEPT ![c] = "dead"]
    /\ call' = [call EXCEPT ![c].pc = "ready", ![c].runtime = NoRuntime,
                            ![c].acq = "HandshakeSendFailed"]
    /\ UNCHANGED <<runtimes, discovery, instances, kqueue, kactive, sink>>

\* The wait is over but the acquisition fails and nothing is installed.
Install_FailOnTimeout(c, how) ==
    IF how = "timeout"
    THEN /\ call' = [call EXCEPT ![c].pc = "ready",
                                 ![c].acq = "KernelLaunchFailed",
                                 ![c].waitEnd = how]
         /\ UNCHANGED instances
    ELSE /\ instances' = InsertInstance(instances, call[c].key, c)
         /\ call' = [call EXCEPT ![c].pc = "ready", ![c].acq = "ok",
                                 ![c].tx = c, ![c].waitEnd = how]

\* After select(rx.next(), timeout): this.instances.insert(entity_id,
\* running_kernel) and the task ends with Ok(shell_request_tx).
Install(c, how) ==
    /\ instances' = InsertInstance(instances, call[c].key, c)
    /\ call' = [call EXCEPT ![c].pc = "ready", ![c].acq = "ok",
                            ![c].tx = c, ![c].waitEnd = how]

\* rx.next() yields the kernel's reply; the handshake's receiver is dropped
\* with what it holds.
HandshakeReplied(c) ==
    /\ call[c].pc = "wait"
    /\ sink[HandshakeIdOf(c)] # <<>>
    /\ Install(c, "reply")
    /\ sink' = [sink EXCEPT ![HandshakeIdOf(c)] = <<>>]
    /\ UNCHANGED <<runtimes, discovery, kstate, kqueue, kactive>>

\* rx.next() yields None: the request and its sender were dropped.
HandshakeSinkClosed(c) ==
    /\ call[c].pc = "wait"
    /\ sink[HandshakeIdOf(c)] = <<>>
    /\ ~SinkOpen(HandshakeIdOf(c))
    /\ Install(c, "closed")
    /\ UNCHANGED <<runtimes, discovery, kstate, kqueue, kactive, sink>>

\* smol::Timer::after(1 s) fires first.
HandshakeTimeout(c) ==
    /\ call[c].pc = "wait"
    /\ sink[HandshakeIdOf(c)] = <<>>
    /\ Install(c, "timeout")
    /\ UNCHANGED <<runtimes, discovery, kstate, kqueue, kactive, sink>>

\* ------------------------------------- the future execute_code returns
\* The future has completed with `result`; its locals are gone.
Finished(rec, result) ==
    [rec EXCEPT !.pc = "done", !.result = result, !.language = "none",
                !.retry = FALSE, !.waitEnd = "none",
                !.stream = IF result = "stream" THEN "open" ELSE "none"]

\* The acquisition's error is dropped and the receiver returned as a stream.
AcquireFailed_ReturnsStream(c) ==
    /\ call[c].pc = "ready"
    /\ call[c].acq # "ok"
    /\ call' = [call EXCEPT ![c] = Finished(call[c], "stream")]
    /\ UNCHANGED <<runtimes, discovery, instances, kstate, kqueue, kactive,
                   sink>>

\* shell_request_tx.await? yields the acquisition's error.
AcquireFailed(c) ==
    /\ call[c].pc = "ready"
    /\ call[c].acq # "ok"
    /\ call' = [call EXCEPT ![c] = Finished(call[c], call[c].acq)]
    /\ UNCHANGED <<runtimes, discovery, instances, kstate, kqueue, kactive,
                   sink>>

\* The request is put at the front of the control channel.
SubmitRequest_Prepend(c) ==
    /\ call[c].pc = "ready"
    /\ call[c].acq = "ok"
    /\ kstate[call[c].tx] = "alive"
    /\ kqueue' = [kqueue EXCEPT ![call[c].tx] = <<ExecuteRequest(c)>> \o @]
    /\ call' = [call EXCEPT ![c] = Finished(call[c], "stream")]
    /\ UNCHANGED <<runtimes, discovery, instances, kstate, kactive, sink>>

\* unbounded_send(Request { execution_id, .., iopub_sender: tx }) succeeds
\* and Ok(rx) is returned.
SubmitRequest(c) ==
    /\ call[c].pc = "ready"
    /\ call[c].acq = "ok"
    /\ kstate[call[c].tx] = "alive"
    /\ kqueue' = [kqueue EXCEPT ![call[c].tx] = Append(@, ExecuteRequest(c))]
    /\ call' = [call EXCEPT ![c] = Finished(call[c], "stream")]
    /\ UNCHANGED <<runtimes, discovery, instances, kstate, kactive, sink>>

\* The failed submission drops the stale entry of the session map.
SubmitFails_Reap(c) ==
    /\ call[c].pc = "ready"
    /\ call[c].acq = "ok"
    /\ kstate[call[c].tx] = "dead"
    /\ call' = [call EXCEPT ![c] = Finished(call[c], "SubmissionFailed")]
    /\ instances' = { e \in instances : e.kernel # call[c].tx }
    /\ UNCHANGED <<runtimes, discovery, kstate, kqueue, kactive, sink>>

\* The failed submission clears the whole session map.
SubmitFails_ClearsMap(c) ==
    /\ call[c].pc = "ready"
    /\ call[c].acq = "ok"
    /\ kstate[call[c].tx] = "dead"
    /\ call' = [call EXCEPT ![c] = Finished(call[c], "SubmissionFailed")]
    /\ instances' = {}
    /\ UNCHANGED <<runtimes, discovery, kstate, kqueue, kactive, sink>>

\* unbounded_send fails because the receiver is gone:
\* .context("Failed to send execution request")?
SubmitFails(c) ==
    /\ call[c].pc = "ready"
    /\ call[c].acq = "ok"
    /\ kstate[call[c].tx] = "dead"
    /\ call' = [call EXCEPT ![c] = Finished(call[c], "SubmissionFailed")]
    /\ UNCHANGED <<runtimes, discovery, instances, kstate, kqueue, kactive,
                   sink>>

\* ------------------------------------------------------ the kernel side
\* A sink's receiver lives until its holder drops it: the handshake's until
\* the wait is over, a call's until the consumer's loop is left.
ReceiverAlive(s) ==
    \A c \in Calls :
        /\ s = HandshakeIdOf(c) => call[c].pc = "wait"
        /\ (call[c].pc # "idle" /\ call[c].rx = s)
               => call[c].stream \notin {"ended", "dropped"}

\* The kernel takes a kernel-info request off its control channel, replies
\* on the request's iopub_sender and drops the request; a send to a dropped
\* receiver stores nothing.
KernelInfoReply(k) ==
    /\ kstate[k] = "alive"
    /\ kqueue[k] # <<>>
    /\ Head(kqueue[k]).kind = "KernelInfoRequest"
    /\ kqueue' = [kqueue EXCEPT ![k] = Tail(@)]
    /\ LET r == Head(kqueue[k])
       IN  sink' = IF ReceiverAlive(r.iopub_sender)
                   THEN [sink EXCEPT ![r.iopub_sender] = Append(@, Update(r))]
                   ELSE sink
    /\ UNCHANGED <<runtimes, discovery, instances, call, kstate, kactive>>

\* The kernel takes an execute request off its control channel and starts
\* to run it.
KernelReceive(k) ==
    /\ kstate[k] = "alive"
    /\ kqueue[k] # <<>>
    /\ Head(kqueue[k]).kind = "ExecuteRequest"
    /\ kactive' = [kactive EXCEPT ![k] = @ \cup { Head(kqueue[k]) }]
    /\ kqueue' = [kqueue EXCEPT ![k] = Tail(@)]
    /\ UNCHANGED <<runtimes, discovery, instances, call, kstate, sink>>

\* The kernel sends an update for a request it runs on the request's
\* iopub_sender.
KernelEmit(k, r) ==
    /\ kstate[k] = "alive"
    /\ r \in kactive[k]
    /\ ReceiverAlive(r.iopub_sender)
    /\ Emitted(r) < MaxUpdates
    /\ sink' = [sink EXCEPT ![r.iopub_sender] = Append(@, Update(r))]
    /\ UNCHANGED <<runtimes, discovery, instances, call, kstate, kqueue,
                   kactive>>

\* The kernel is done with a request and drops it, sender included.
KernelFinish(k, r) ==
    /\ kstate[k] = "alive"
    /\ r \in kactive[k]
    /\ kactive' = [kactive EXCEPT ![k] = @ \ {r}]
    /\ UNCHANGED <<runtimes, discovery, instances, call, kstate, kqueue,
                   sink>>

\* The kernel process dies: the control channel's receiver and every
\* request it holds are dropped.
KernelDies(k) ==
    /\ kstate[k] = "alive"
    /\ kstate' = [kstate EXCEPT ![k] = "dead"]
    /\ kqueue' = [kqueue EXCEPT ![k] = <<>>]
    /\ kactive' = [kactive EXCEPT ![k] = {}]
    /\ UNCHANGED <<runtimes, discovery, instances, call, sink>>

\* ------------------------------------- the consumer of a stream (run)
\* The update is handed to a view that is gone: push_message's update does
\* nothing and the loop goes on without it.
ConsumerNext_Skip(c) ==
    /\ call[c].stream = "open"
    /\ sink[call[c].rx] # <<>>
    /\ sink' = [sink EXCEPT ![call[c].rx] = Tail(@)]
    /\ UNCHANGED <<runtimes, discovery, instances, call, kstate, kqueue,
                   kactive>>

\* while let Some(update) = receiver.next().await: the next update is taken
\* and pushed to the execution view.
ConsumerNext(c) ==
    /\ call[c].stream = "open"
    /\ sink[call[c].rx] # <<>>
    /\ call' = [call EXCEPT ![c].got = Append(@, Head(sink[call[c].rx]))]
    /\ sink' = [sink EXCEPT ![call[c].rx] = Tail(@)]
    /\ UNCHANGED <<runtimes, discovery, instances, kstate, kqueue, kactive>>

\* The loop ends with an error when the kernel of the request is gone.
ConsumerEnds_ReportsCrash(c) ==
    /\ call[c].stream = "open"
    /\ sink[call[c].rx] = <<>>
    /\ ~SinkOpen(call[c].rx)
    /\ call' = [call EXCEPT ![c].stream = IF kstate[call[c].tx] = "dead"
                                          THEN "failed" ELSE "ended"]
    /\ UNCHANGED <<runtimes, discovery, instances, kstate, kqueue, kactive,
                   sink>>

\* receiver.next() yields None: the sink is drained and closed, the loop
\* ends with Ok(()).
ConsumerEnds(c) ==
    /\ call[c].stream = "open"
    /\ sink[call[c].rx] = <<>>
    /\ ~SinkOpen(call[c].rx)
    /\ call' = [call EXCEPT ![c].stream = "ended"]
    /\ UNCHANGED <<runtimes, discovery, instances, kstate, kqueue, kactive,
                   sink>>

\* Dropping the stream also takes its request away from the kernel.
ConsumerAbandons_Cancels(c) ==
    /\ call[c].stream = "open"
    /\ sink[call[c].rx] # <<>>
    /\ call' = [call EXCEPT ![c].stream = "dropped", ![c].got = <<>>]
    /\ sink' = [sink EXCEPT ![call[c].rx] = <<>>]
    /\ kactive' = [k \in KernelIds |->
                      { r \in kactive[k] : r.iopub_sender # call[c].rx }]
    /\ UNCHANGED <<runtimes, discovery, instances, kstate, kqueue>>

\* An update arrives but the execution view or the editor is gone:
\* execution_view.update(..)? / editor.update(..)? leave the loop and the
\* receiver is dropped with what it holds.
ConsumerAbandons(c) ==
    /\ call[c].stream = "open"
    /\ sink[call[c].rx] # <<>>
    /\ call' = [call EXCEPT ![c].stream = "dropped", ![c].got = <<>>]
    /\ sink' = [sink EXCEPT ![call[c].rx] = <<>>]
    /\ UNCHANGED <<runtimes, discovery, instances, kstate, kqueue, kactive>>

\* ------------------------------------------------------------------ Next
Next ==
    \/ \E rs \in DiscoveredCatalogs : SetRuntimes(rs)
           /\ UNCHANGED <<providerVars, parseVars>>
    \/ \E c \in Calls, key \in Keys, language \in Languages :
           ExecuteCode(c, key, language)
           /\ UNCHANGED <<providerVars, parseVars>>
    \/ \E c \in Calls : LaunchFails(c)
           /\ UNCHANGED <<providerVars, parseVars>>
    \/ \E c \in Calls : LaunchSucceeds(c)
           /\ UNCHANGED <<providerVars, parseVars>>
    \/ \E c \in Calls : HandshakeSendFails(c)
           /\ UNCHANGED <<providerVars, parseVars>>
    \/ \E c \in Calls : HandshakeReplied(c)
           /\ UNCHANGED <<providerVars, parseVars>>
    \/ \E c \in Calls : HandshakeSinkClosed(c)
           /\ UNCHANGED <<providerVars, parseVars>>
    \/ \E c \in Calls : HandshakeTimeout(c)
           /\ UNCHANGED <<providerVars, parseVars>>
    \/ \E c \in Calls : AcquireFailed(c)
           /\ UNCHANGED <<providerVars, parseVars>>
    \/ \E c \in Calls : SubmitRequest(c)
           /\ UNCHANGED <<providerVars, parseVars>>
    \/ \E c \in Calls : SubmitFails(c)
           /\ UNCHANGED <<providerVars, parseVars>>
    \/ \E k \in KernelIds : KernelInfoReply(k)
           /\ UNCHANGED <<providerVars, parseVars>>
    \/ \E k \in KernelIds : KernelReceive(k)
           /\ UNCHANGED <<providerVars, parseVars>>
    \/ \E k \in KernelIds : \E r \in kactive[k] : KernelEmit(k, r)
           /\ UNCHANGED <<providerVars, parseVars>>
    \/ \E k \in KernelIds : \E r \in kactive[k] : KernelFinish(k, r)
           /\ UNCHANGED <<providerVars, parseVars>>
    \/ \E k \in KernelIds : KernelDies(k)
           /\ UNCHANGED <<providerVars, parseVars>>

Spec == Init /\ [][Next]_vars

\* ------------------------------------------------ streams and consumers
\* Discovery has completed with one runtime before the first call.
InitStream ==
    /\ runtimes = <<Python3>>
    /\ discovery = "done"
    /\ instances = {}
    /\ call = [c \in Calls |-> IdleCall]
    /\ kstate = [k \in KernelIds |-> "none"]
    /\ kqueue = [k \in KernelIds |-> <<>>]
    /\ kactive = [k \in KernelIds |-> {}]
    /\ sink = [s \in SinkIds |-> <<>>]
    /\ NoProvider
    /\ NoLine

\* The manager with calls of one editor for the discovered language, the
\* kernels, and the consumers of the returned streams.
NextStream ==
    \/ \E c \in Calls : ExecuteCode(c, 1, "python")
           /\ UNCHANGED <<providerVars, parseVars>>
    \/ \E c \in Calls : LaunchFails(c)
           /\ UNCHANGED <<providerVars, parseVars>>
    \/ \E c \in Calls : LaunchSucceeds(c)
           /\ UNCHANGED <<providerVars, parseVars>>
    \/ \E c \in Calls : HandshakeSendFails(c)
           /\ UNCHANGED <<providerVars, parseVars>>
    \/ \E c \in Calls : HandshakeReplied(c)
           /\ UNCHANGED <<providerVars, parseVars>>
    \/ \E c \in Calls : HandshakeSinkClosed(c)
           /\ UNCHANGED <<providerVars, parseVars>>
    \/ \E c \in Calls : HandshakeTimeout(c)
           /\ UNCHANGED <<providerVars, parseVars>>
    \/ \E c \in Calls : AcquireFailed(c)
           /\ UNCHANGED <<providerVars, parseVars>>
    \/ \E c \in Calls : SubmitRequest(c)
           /\ UNCHANGED <<providerVars, parseVars>>
    \/ \E c \in Calls : SubmitFails(c)
           /\ UNCHANGED <<providerVars, parseVars>>
    \/ \E k \in KernelIds : KernelInfoReply(k)
           /\ UNCHANGED <<providerVars, parseVars>>
    \/ \E k \in KernelIds : KernelReceive(k)
           /\ UNCHANGED <<providerVars, parseVars>>
    \/ \E k \in KernelIds : \E r \in kactive[k] : KernelEmit(k, r)
           /\ UNCHANGED <<providerVars, parseVars>>
    \/ \E k \in KernelIds : \E r \in kactive[k] : KernelFinish(k, r)
           /\ UNCHANGED <<providerVars, parseVars>>
    \/ \E k \in KernelIds : KernelDies(k)
           /\ UNCHANGED <<providerVars, parseVars>>
    \/ \E c \in Calls : ConsumerNext(c)
           /\ UNCHANGED <<providerVars, parseVars>>
    \/ \E c \in Calls : ConsumerEnds(c)
           /\ UNCHANGED <<providerVars, parseVars>>
    \/ \E c \in Calls : ConsumerAbandons(c)
           /\ UNCHANGED <<providerVars, parseVars>>

SpecStream == InitStream /\ [][NextStream]_vars

\* The executor polls a consumer whose receiver has an update or is closed.
FairSpecStream ==
    /\ SpecStream
    /\ \A c \in Calls : WF_managerVars(ConsumerNext(c))
    /\ \A c \in Calls : WF_managerVars(ConsumerEnds(c))

\* ------------------------------------------------------------ properties
\* The launches in flight for a key: the spawned task has not finished.
LaunchesInFlight(key) ==
    { c \in Calls : call[c].key = key /\ call[c].pc \in {"launching", "wait"} }

\* The catalog has no runtime of the language.
AbsentFromCatalog(language) ==
    \A i \in 1..Len(runtimes) : runtimes[i].language # language

\* Call c is issued by this step.
Issued(c) == call[c].pc = "idle" /\ call'[c].pc # "idle"

\* This step starts no launch: no call enters "launching", no kernel appears.
NoLaunchStarted ==
    /\ \A d \in Calls : call'[d].pc = "launching" => call[d].pc = "launching"
    /\ kstate' = kstate

\* C1: for every session key, calls issued while no session is installed
\* start exactly one launch: never are two launches for one key in flight.
C1_AtMostOneLaunchPerKey ==
    \A key \in Keys : Cardinality(LaunchesInFlight(key)) <= 1

\* C2: every control sender handed to a caller is connected to the kernel
\* session installed in the session map for the caller's key.
C2_SenderOfInstalledSession ==
    \A c \in Calls :
        (call[c].pc \in {"ready", "done"} /\ call[c].acq = "ok")
            => /\ HasInstance(instances, call[c].key)
               /\ GetInstance(instances, call[c].key) = call[c].tx

\* C3: the session map holds at most one entry per session key.
C3_OneSessionPerKey ==
    \A e1 \in instances : \A e2 \in instances : e1.key = e2.key => e1 = e2

\* Two launches for one key have both installed their kernel.
C3_Witness ==
    \E c \in Calls : \E d \in Calls :
        /\ c # d
        /\ call[c].key = call[d].key
        /\ call[c].acq = "ok" /\ call[c].tx = c
        /\ call[d].acq = "ok" /\ call[d].tx = d
        /\ Cardinality(instances) = 1

\* What C4 promises of the call it is about: RuntimeNotFound at once, no
\* launch, the session map unchanged, and the error is what execute returns.
NotFoundOutcome(c) ==
    /\ call'[c].pc = "ready"
    /\ call'[c].acq = "RuntimeNotFound"
    /\ instances' = instances
    /\ NoLaunchStarted

NotFoundPropagates(c) ==
    (call[c].pc = "ready" /\ call[c].acq = "RuntimeNotFound"
        /\ call'[c] # call[c])
        => /\ call'[c].pc = "done"
           /\ call'[c].result = "RuntimeNotFound"
           /\ instances' = instances
           /\ kqueue' = kqueue
           /\ NoLaunchStarted

\* C4 as stated: for every state of the session map, a call whose language
\* has no runtime in the catalog yields RuntimeNotFound, starts no launch and
\* leaves the session map unchanged.
C4_AbsentLanguageNotFound_AnyMap ==
    [][\A c \in Calls :
          /\ (Issued(c) /\ AbsentFromCatalog(call'[c].language))
                 => NotFoundOutcome(c)
          /\ NotFoundPropagates(c)]_vars

\* C4 amended: when no session is installed for the key, a call whose
\* language has no runtime in the catalog yields RuntimeNotFound, starts no
\* launch and leaves the session map unchanged.
C4_AbsentLanguageNotFound ==
    [][\A c \in Calls :
          /\ (Issued(c) /\ AbsentFromCatalog(call'[c].language)
                /\ ~HasInstance(instances, call'[c].key))
                 => NotFoundOutcome(c)
          /\ NotFoundPropagates(c)]_vars

\* RuntimeNotFound for one key while another key has a session installed.
C4_Witness ==
    \E c \in Calls :
        /\ call[c].pc = "ready"
        /\ call[c].acq = "RuntimeNotFound"
        /\ call[c].language = "julia"
        /\ runtimes # <<>>
        /\ instances # {}

\* C5: when the 1-second timer ends the handshake wait, the acquisition
\* succeeds: the session is installed under the key and the control sender of
\* the launched kernel is returned.
C5_TimeoutStillInstalls ==
    [][\A c \in Calls :
          (call[c].pc = "wait" /\ call'[c].pc # "wait"
             /\ sink[HandshakeIdOf(c)] = <<>> /\ SinkOpen(HandshakeIdOf(c)))
              => /\ call'[c].pc = "ready"
                 /\ call'[c].acq = "ok"
                 /\ call'[c].tx = c
                 /\ HasInstance(instances', call[c].key)
                 /\ GetInstance(instances', call[c].key) = c]_vars

\* The wait ended by the timer: the kernel never took the handshake request.
C5_Witness ==
    \E c \in Calls :
        /\ call[c].pc = "ready"
        /\ call[c].waitEnd = "timeout"
        /\ call[c].acq = "ok"
        /\ kstate[c] = "alive"
        /\ kqueue[c] # <<>>
        /\ Head(kqueue[c]) = HandshakeRequest(c)
        /\ [key |-> call[c].key, kernel |-> c] \in instances

\* C6: a call for a key with an installed session gets that session's
\* sender at once, whatever the language: nothing is launched, no handshake
\* is sent and the session map is unchanged.
C6_CacheHit ==
    [][\A c \in Calls :
          (Issued(c) /\ HasInstance(instances, call'[c].key))
              => /\ call'[c].pc = "ready"
                 /\ call'[c].acq = "ok"
                 /\ call'[c].tx = GetInstance(instances, call'[c].key)
                 /\ call'[c].runtime = NoRuntime
                 /\ instances' = instances
                 /\ kqueue' = kqueue
                 /\ NoLaunchStarted]_vars

\* A cache hit for a language that has no runtime in the catalog.
C6_Witness ==
    \E c \in Calls :
        /\ call[c].pc = "ready"
        /\ call[c].acq = "ok"
        /\ call[c].tx # c
        /\ call[c].language = "julia"

\* C7: every call has a sink of its own, and every update in the stream a
\* call got carries that call's execution id.
C7_UpdateIsolation ==
    /\ \A c \in Calls : \A d \in Calls :
           (c # d /\ call[c].pc # "idle" /\ call[d].pc # "idle")
               => call[c].rx # call[d].rx
    /\ \A c \in Calls :
           call[c].pc # "idle"
               => /\ \A i \in 1..Len(sink[call[c].rx]) :
                         sink[call[c].rx][i].execution_id = ExecutionIdOf(c)
                  /\ \A i \in 1..Len(call[c].got) :
                         call[c].got[i].execution_id = ExecutionIdOf(c)

\* Two requests run on one kernel at once and both streams hold an update.
C7_Witness ==
    \E c \in Calls : \E d \in Calls :
        /\ c # d
        /\ call[c].result = "stream" /\ call[d].result = "stream"
        /\ call[c].tx = call[d].tx
        /\ \E r1 \in kactive[call[c].tx] : r1.execution_id = ExecutionIdOf(c)
        /\ \E r2 \in kactive[call[c].tx] : r2.execution_id = ExecutionIdOf(d)
        /\ sink[call[c].rx] # <<>>
        /\ sink[call[d].rx] # <<>>

\* C8: a failed launch ends the acquisition with the launch error, which
\* execute returns; no handshake is sent and the call installs no session.
C8_LaunchFailure ==
    [][\A c \in Calls :
          /\ (call[c].pc = "launching"
                /\ call'[c].acq = "KernelLaunchFailed")
                 => /\ call'[c].pc = "ready"
                    /\ instances' = instances
                    /\ kqueue' = kqueue
                    /\ kstate' = kstate
          /\ (call[c].pc = "ready" /\ call[c].acq = "KernelLaunchFailed"
                /\ call'[c] # call[c])
                 => /\ call'[c].pc = "done"
                    /\ call'[c].result = "KernelLaunchFailed"
                    /\ instances' = instances
                    /\ kqueue' = kqueue
                    /\ NoLaunchStarted
          /\ call'[c].acq = "KernelLaunchFailed"
                 => /\ \A e \in instances' : e.kernel # c
                    /\ kstate'[c] = "none"]_vars

\* execute has returned the launch error and the key has no session.
C8_Witness ==
    \E c \in Calls :
        /\ call[c].pc = "done"
        /\ call[c].result = "KernelLaunchFailed"
        /\ ~HasInstance(instances, call[c].key)

\* C9: a call for a key without a session whose language is in the catalog
\* starts a launch, also after earlier launches for the key have failed; and
\* a call makes one launch attempt at most.
C9_NoCachedFailure ==
    [][\A c \in Calls :
          /\ (Issued(c) /\ ~HasInstance(instances, call'[c].key)
                /\ ~AbsentFromCatalog(call'[c].language))
                 => /\ call'[c].pc = "launching"
                    /\ call'[c].runtime.language = call'[c].language
          /\ call[c].pc \in {"wait", "ready", "done"}
                 => call'[c].pc # "launching"]_vars

\* A call issued after a failed launch for its key has installed a session.
C9_Witness ==
    \E c \in Calls :
        /\ call[c].retry
        /\ call[c].pc = "ready"
        /\ call[c].acq = "ok"
        /\ call[c].tx = c
        /\ [key |-> call[c].key, kernel |-> c] \in instances

\* C10: a submission on a closed control channel ends execute with
\* SubmissionFailed; nothing is resubmitted or launched and the session map
\* is unchanged.
C10_SubmissionFailure ==
    [][\A c \in Calls :
          /\ (call[c].pc = "ready" /\ call[c].acq = "ok"
                /\ kstate[call[c].tx] = "dead" /\ call'[c] # call[c])
                 => /\ call'[c].pc = "done"
                    /\ call'[c].result = "SubmissionFailed"
                    /\ instances' = instances
                    /\ kqueue' = kqueue
                    /\ NoLaunchStarted
          /\ call[c].pc = "done" => call'[c] = call[c]]_vars

\* execute has returned SubmissionFailed and the dead session is still the
\* one installed for the key.
C10_Witness ==
    \E c \in Calls :
        /\ call[c].pc = "done"
        /\ call[c].result = "SubmissionFailed"
        /\ kstate[call[c].tx] = "dead"
        /\ [key |-> call[c].key, kernel |-> call[c].tx] \in instances

\* Some operation of the manager removes the session of the key.
RemoveSession(key) == Next /\ ~HasInstance(instances', key)

\* C11: the manager has a session-removal operation: whenever a session is
\* installed for a key, a step that removes it is possible (so that a later
\* acquire for the key launches afresh).
C11_RemovalHookExists ==
    \A key \in Keys :
        HasInstance(instances, key) => ENABLED RemoveSession(key)

\* C12: a control channel is first-in first-out: a send puts the request
\* behind those already queued, the kernel takes the request at the front,
\* and a queue changes in no other way while its kernel lives, so requests
\* reach the kernel in the order of their sends, none lost or duplicated.
C12_SubmissionOrder ==
    [][\A k \in KernelIds :
          kqueue'[k] # kqueue[k]
              => \/ /\ \E c \in Calls :
                         /\ call[c].pc \in {"launching", "ready"}
                         /\ call'[c].pc # call[c].pc
                         /\ kqueue'[k] = Append(kqueue[k],
                                IF call[c].pc = "launching"
                                THEN HandshakeRequest(c)
                                ELSE ExecuteRequest(c))
                    /\ \A i \in 1..Len(kqueue[k]) :
                           kqueue'[k][i] = kqueue[k][i]
                 \/ /\ kqueue[k] # <<>>
                    /\ kqueue'[k] = Tail(kqueue[k])
                    /\ \/ Head(kqueue[k]).kind = "KernelInfoRequest"
                       \/ kactive'[k] = kactive[k] \cup { Head(kqueue[k]) }
                 \/ /\ kstate'[k] = "dead"
                    /\ kqueue'[k] = <<>>]_vars

\* Two execute requests wait on one control channel behind each other.
C12_Witness ==
    \E k \in KernelIds : \E c \in Calls : \E d \in Calls :
        /\ c # d
        /\ kstate[k] = "alive"
        /\ Len(kqueue[k]) >= 2
        /\ kqueue[k][Len(kqueue[k]) - 1].execution_id = ExecutionIdOf(c)
        /\ kqueue[k][Len(kqueue[k])].execution_id = ExecutionIdOf(d)

\* Index i is the first one of the catalog whose runtime has the language.
FirstMatchAt(i, language) ==
    /\ i \in 1..Len(runtimes)
    /\ runtimes[i].language = language
    /\ \A j \in 1..(i - 1) : runtimes[j].language # language

\* C14: a call for a key without a session launches the first runtime in
\* catalog order whose language is the requested one, and selects no
\* runtime (and launches nothing) when none matches.
C14_FirstMatch ==
    [][\A c \in Calls :
          (Issued(c) /\ ~HasInstance(instances, call'[c].key))
              => IF AbsentFromCatalog(call'[c].language)
                 THEN /\ call'[c].runtime = NoRuntime
                      /\ call'[c].pc # "launching"
                 ELSE /\ call'[c].pc = "launching"
                      /\ \E i \in 1..Len(runtimes) :
                             /\ FirstMatchAt(i, call'[c].language)
                             /\ call'[c].runtime = runtimes[i]]_vars

\* Two runtimes of the catalog share the language; the first is launched.
C14_Witness ==
    \E c \in Calls :
        /\ call[c].pc = "launching"
        /\ call[c].language = "python"
        /\ runtimes = <<PyPy, Ruby, Python3>>
        /\ call[c].runtime = PyPy

\* C15: the catalog is empty until discovery sets it, is set as a whole to
\* the discovered list, and setting it changes nothing else; every later
\* acquire resolves against the list that was set.
C15_CatalogSet ==
    /\ [](discovery = "pending" => runtimes = <<>>)
    /\ [](discovery = "done" => runtimes \in DiscoveredCatalogs)
    /\ [][runtimes' # runtimes
            => /\ runtimes = <<>>
               /\ runtimes' \in DiscoveredCatalogs
               /\ UNCHANGED <<instances, call, kstate, kqueue, kactive,
                              sink>>]_vars
    /\ [][\A c \in Calls :
            (Issued(c) /\ ~HasInstance(instances, call'[c].key)
               /\ call'[c].pc = "launching")
                => \E i \in 1..Len(runtimes') :
                       /\ runtimes'[i] = call'[c].runtime
                       /\ runtimes'[i].language = call'[c].language]_vars

\* A call issued before the catalog was set found no runtime; one issued
\* after it launches a runtime of the new list.
C15_Witness ==
    \E c \in Calls : \E d \in Calls :
        /\ discovery = "done"
        /\ call[c].result = "RuntimeNotFound"
        /\ call[d].pc = "launching"
        /\ call[d].language = "ruby"
        /\ call[d].runtime = Ruby

\* The failures an operation of a call can end with.
Failures ==
    {"RuntimeNotFound", "KernelLaunchFailed", "HandshakeSendFailed",
     "SubmissionFailed"}

\* This step makes call c fail: its acquisition or its submission.
FailsNow(c) ==
    \/ call[c].acq = "none" /\ call'[c].acq \in Failures
    \/ call[c].result = "none" /\ call'[c].result \in Failures

\* C17: a step in which an operation on one key fails changes neither the
\* sessions nor the calls nor the kernels of any other key.
C17_FailureScopedToKey ==
    [][\A c \in Calls :
          FailsNow(c)
              => /\ \A e \in instances \cup instances' :
                        e.key # call'[c].key
                            => (e \in instances /\ e \in instances')
                 /\ \A d \in Calls :
                        (d # c /\ call[d].key # call'[c].key)
                            => /\ call'[d] = call[d]
                               /\ kstate'[d] = kstate[d]
                               /\ kqueue'[d] = kqueue[d]
                               /\ kactive'[d] = kactive[d]]_vars

\* A submission on one key has failed while another key has its session.
C17_Witness ==
    \E c \in Calls : \E e \in instances :
        /\ call[c].result = "SubmissionFailed"
        /\ e.key # call[c].key
        /\ kstate[e.kernel] = "alive"

\* C18: once the kernel of an installed session is dead, the entry stays
\* as it is in the session map, and a call for the key gets the stale sender
\* on the cache-hit path and fails with SubmissionFailed without a launch.
C18_DeadSessionStays ==
    [][/\ \A key \in Keys :
            (HasInstance(instances, key)
               /\ kstate[GetInstance(instances, key)] = "dead")
                => /\ HasInstance(instances', key)
                   /\ GetInstance(instances', key)
                          = GetInstance(instances, key)
       /\ \A c \in Calls :
            (Issued(c) /\ HasInstance(instances, call'[c].key)
               /\ kstate[GetInstance(instances, call'[c].key)] = "dead")
                => /\ call'[c].pc = "ready"
                   /\ call'[c].acq = "ok"
                   /\ call'[c].tx = GetInstance(instances, call'[c].key)
       /\ \A c \in Calls :
            (call[c].pc = "ready" /\ call[c].acq = "ok"
               /\ kstate[call[c].tx] = "dead" /\ call'[c] # call[c])
                => /\ call'[c].result = "SubmissionFailed"
                   /\ NoLaunchStarted]_vars

\* C19: when the kernel-info request cannot be sent on the launched
\* kernel's control channel, the acquisition ends with that error, execute
\* returns it, and the launched kernel is never installed.
C19_HandshakeSendError ==
    [][\A c \in Calls :
          /\ (call[c].pc = "launching" /\ kstate'[c] = "dead")
                 => /\ call'[c].pc = "ready"
                    /\ call'[c].acq = "HandshakeSendFailed"
                    /\ instances' = instances
          /\ (call[c].pc = "ready" /\ call[c].acq = "HandshakeSendFailed"
                /\ call'[c] # call[c])
                 => /\ call'[c].pc = "done"
                    /\ call'[c].result = "HandshakeSendFailed"
                    /\ instances' = instances
          /\ call'[c].acq = "HandshakeSendFailed"
                 => \A e \in instances' : e.kernel # c]_vars

\* execute has returned the send error and the key has no session.
C19_Witness ==
    \E c \in Calls :
        /\ call[c].pc = "done"
        /\ call[c].result = "HandshakeSendFailed"
        /\ kstate[c] = "dead"
        /\ ~HasInstance(instances, call[c].key)

\* The session-map entry of the kernel that call c launched.
EntryOf(c) == [key |-> call[c].key, kernel |-> c]

\* C20: on the miss path the handshake request is sent when the launch has
\* succeeded, the session enters the map only in the step that ends the
\* handshake wait, and the sender is returned in that step, not before.
C20_InstallationOrder ==
    [][\A c \in Calls :
          /\ (call[c].pc # "wait" /\ call'[c].pc = "wait")
                 => /\ call[c].pc = "launching"
                    /\ kstate'[c] = "alive"
                    /\ kqueue'[c] = <<HandshakeRequest(c)>>
          /\ (EntryOf(c) \notin instances /\ EntryOf(c) \in instances')
                 => /\ call[c].pc = "wait"
                    /\ kstate[c] # "none"
                    /\ call'[c].waitEnd \in {"reply", "closed", "timeout"}
          /\ (call[c].pc \in {"launching", "wait"} /\ call'[c].acq = "ok")
                 => /\ call[c].pc = "wait"
                    /\ call'[c].tx = c
                    /\ EntryOf(c) \in instances'
          /\ call'[c].pc \in {"launching", "wait"}
                 => EntryOf(c) \notin instances']_vars

\* The wait was ended by the kernel's reply and the session is installed.
C20_Witness ==
    \E c \in Calls :
        /\ call[c].pc = "ready"
        /\ call[c].waitEnd = "reply"
        /\ call[c].acq = "ok"
        /\ call[c].tx = c
        /\ EntryOf(c) \in instances

\* What the consumer of call c has taken, followed by what waits in its sink.
StreamOf(c) == call[c].got \o sink[call[c].rx]

\* The stream of call c is the kernel's updates for it in sending order,
\* each once, and its loop has ended only on a drained, closed sink.
StreamInOrder(c) ==
    /\ \A i \in 1..Len(StreamOf(c)) :
           /\ StreamOf(c)[i].content = i
           /\ StreamOf(c)[i].execution_id = ExecutionIdOf(c)
    /\ call[c].stream = "ended"
           => sink[call[c].rx] = <<>> /\ ~SinkOpen(call[c].rx)

\* C13: the consumer gets the request's updates in the order the kernel
\* sent them, each exactly once; its loop ends only when the sink is closed
\* and drained; and once the sink is closed the loop does end.
C13_StreamInOrderAndEnds ==
    /\ [](\A c \in Calls :
              call[c].stream \in {"open", "ended"} => StreamInOrder(c))
    /\ [][\A c \in Calls :
              /\ call[c].stream = "ended" => call'[c] = call[c]
              /\ (call[c].stream = "open" /\ call'[c].stream = "open")
                     => \/ call'[c].got = call[c].got
                        \/ /\ sink[call[c].rx] # <<>>
                           /\ call'[c].got
                                  = Append(call[c].got, Head(sink[call[c].rx]))
                           /\ sink'[call[c].rx] = Tail(sink[call[c].rx])]_vars
    /\ \A c \in Calls :
           (call[c].stream = "open" /\ ~SinkOpen(call[c].rx))
               ~> (call[c].stream # "open")

\* A loop has ended after two updates, another after none.
C13_Witness ==
    \E c \in Calls : \E d \in Calls :
        /\ call[c].stream = "ended"
        /\ Len(call[c].got) = 2
        /\ call[d].stream = "ended"
        /\ call[d].got = <<>>

\* C16: the step in which a consumer drops its stream sends nothing on a
\* control channel and changes neither the session map, nor a kernel or the
\* requests it holds, nor any other call or its stream.
C16_AbandonmentFrame ==
    [][\A c \in Calls :
          (call[c].stream = "open" /\ call'[c].stream = "dropped")
              => /\ UNCHANGED <<runtimes, instances, kstate, kqueue, kactive>>
                 /\ \A d \in Calls :
                        d # c => /\ call'[d] = call[d]
                                 /\ call[d].pc # "idle"
                                        => sink'[call[d].rx]
                                               = sink[call[d].rx]]_vars

\* A stream was dropped while the kernel still runs its request, next to
\* another call's open stream on the same session.
C16_Witness ==
    \E c \in Calls : \E d \in Calls :
        /\ c # d
        /\ call[c].stream = "dropped"
        /\ call[d].stream = "open"
        /\ call[c].tx = call[d].tx
        /\ kstate[call[c].tx] = "alive"
        /\ \E r \in kactive[call[c].tx] : r.execution_id = ExecutionIdOf(c)
        /\ EntryOf(c) \in instances \/ EntryOf(d) \in instances

\* Request r waits on control channel q.
Queued(q, r) == \E i \in 1..Len(q) : q[i] = r

\* C21: the kernel-info request is the first request on a launched kernel's
\* control channel; the launching caller's execute request is put on it
\* only after that request was sent and the wait ended, and the kernel
\* takes it only when the kernel-info request is no longer ahead of it.
C21_HandshakeFirst ==
    /\ [](\A k \in KernelIds : \A i \in 1..Len(kqueue[k]) :
              kqueue[k][i].kind = "KernelInfoRequest" => i = 1)
    /\ [][\A c \in Calls :
              /\ (kstate[c] = "none" /\ kstate'[c] = "alive")
                     => kqueue'[c] = <<HandshakeRequest(c)>>
              /\ (~Queued(kqueue[c], ExecuteRequest(c))
                    /\ Queued(kqueue'[c], ExecuteRequest(c)))
                     => /\ call[c].pc = "ready"
                        /\ call[c].waitEnd \in {"reply", "closed", "timeout"}
                        /\ kqueue'[c] = Append(kqueue[c], ExecuteRequest(c))
              /\ (ExecuteRequest(c) \notin kactive[c]
                    /\ ExecuteRequest(c) \in kactive'[c])
                     => /\ Head(kqueue[c]) = ExecuteRequest(c)
                        /\ ~Queued(kqueue[c], HandshakeRequest(c))]_vars

\* The wait timed out with the kernel-info request still unanswered, and
\* the launching caller's execute request waits behind it.
C21_Witness ==
    \E c \in Calls :
        kqueue[c] = <<HandshakeRequest(c), ExecuteRequest(c)>>

\* Some request holding sender s is queued in kq or run in ka.
SenderHeld(kq, ka, s) ==
    \E k \in KernelIds :
        \/ \E r \in ka[k] : r.iopub_sender = s
        \/ \E i \in 1..Len(kq[k]) : kq[k][i].iopub_sender = s

\* C22: the step that closes a stream's sink, be it the kernel's death or
\* the end of the request, changes nothing else the consumer can see; and
\* the consumer's loop ends the same way after either: on the drained,
\* closed sink, keeping the updates it took, with no error.
C22_CrashLikeCompletion ==
    /\ [][\A c \in Calls :
              (/\ call[c].stream = "open"
               /\ SenderHeld(kqueue, kactive, call[c].rx)
               /\ ~SenderHeld(kqueue', kactive', call[c].rx))
                  => /\ call' = call
                     /\ sink' = sink]_vars
    /\ [][\A c \in Calls :
              (call[c].stream = "open"
                 /\ call'[c].stream \notin {"open", "dropped"})
                  => /\ sink[call[c].rx] = <<>>
                     /\ ~SenderHeld(kqueue, kactive, call[c].rx)
                     /\ call'[c] = [call[c] EXCEPT !.stream = "ended"]
                     /\ call'[c].result = "stream"]_vars

\* Two loops have ended after one update each: the kernel of one is dead,
\* the kernel of the other has finished the request and lives.
C22_Witness ==
    \E c \in Calls : \E d \in Calls :
        /\ call[c].stream = "ended"
        /\ call[d].stream = "ended"
        /\ Len(call[c].got) = 1
        /\ Len(call[d].got) = 1
        /\ kstate[call[c].tx] = "dead"
        /\ kstate[call[d].tx] = "alive"

\* C23: no step takes a key out of the session map; a call issued for a
\* key that has a session gets that session's sender at once; and no step
\* spawns a launching task for a key that has a session.
C23_SessionsNeverRemoved ==
    /\ [][\A key \in Keys :
              HasInstance(instances, key) => HasInstance(instances', key)]_vars
    /\ [][\A c \in Calls :
              (Issued(c) /\ HasInstance(instances, call'[c].key))
                  => /\ call'[c].pc = "ready"
                     /\ call'[c].acq = "ok"
                     /\ call'[c].tx = GetInstance(instances, call'[c].key)
                     /\ instances' = instances]_vars
    /\ [][\A c \in Calls :
              (call[c].pc # "launching" /\ call'[c].pc = "launching")
                  => ~HasInstance(instances, call'[c].key)]_vars

\* The kernel of an installed session has died; a call issued afterwards
\* for the key hit the session and failed to submit, and the session is
\* still in the map.
C23_Witness ==
    \E c \in Calls : \E d \in Calls :
        /\ c < d
        /\ EntryOf(c) \in instances
        /\ kstate[c] = "dead"
        /\ call[d].key = call[c].key
        /\ call[d].tx = c
        /\ call[d].result = "SubmissionFailed"

\* The execute request of call c is queued at or run by some kernel.
Delivered(kq, ka, c) ==
    \E k \in KernelIds : Queued(kq[k], ExecuteRequest(c))
                              \/ ExecuteRequest(c) \in ka[k]

\* C24: a finished call has exactly one outcome, an error or a stream, and
\* keeps it; it returns a stream exactly in the step that puts its execute
\* request on a control channel; and a call that failed has no request at
\* any kernel, before or after, and its sink is gone.
C24_ExecuteOutcome ==
    /\ [](\A c \in Calls :
              /\ call[c].pc = "done" <=> call[c].result # "none"
              /\ call[c].result \in Failures \cup {"stream", "none"}
              /\ call[c].result = "stream" <=> call[c].stream # "none"
              /\ Delivered(kqueue, kactive, c) => call[c].result = "stream"
              /\ call[c].result \in Failures
                     => /\ sink[call[c].rx] = <<>>
                        /\ ~SenderHeld(kqueue, kactive, call[c].rx))
    /\ [][\A c \in Calls :
              /\ call[c].result # "none" => call'[c].result = call[c].result
              /\ (call[c].result = "none" /\ call'[c].result = "stream")
                     <=> (/\ ~Delivered(kqueue, kactive, c)
                          /\ call[c].pc = "ready"
                          /\ call[c].acq = "ok"
                          /\ kqueue'[call[c].tx]
                                 = Append(kqueue[call[c].tx],
                                          ExecuteRequest(c)))]_vars

\* One call ended with the handshake's send error; a later one for the
\* same key returned a stream and its request runs on a kernel.
C24_Witness ==
    \E c \in Calls : \E d \in Calls :
        /\ call[c].result = "HandshakeSendFailed"
        /\ call[d].key = call[c].key
        /\ call[d].result = "stream"
        /\ ExecuteRequest(d) \in kactive[call[d].tx]

\* ------------------------- slash-command completion (slash_command.rs)
\* The manager is constructed and unused.
NoManager ==
    /\ runtimes = <<>>
    /\ discovery = "pending"
    /\ instances = {}
    /\ call = [c \in Calls |-> IdleCall]
    /\ kstate = [k \in KernelIds |-> "none"]
    /\ kqueue = [k \in KernelIds |-> <<>>]
    /\ kactive = [k \in KernelIds |-> {}]
    /\ sink = [s \in SinkIds |-> <<>>]

\* The names SlashCommandRegistry::new registers without a window.
RegisteredCommands == {"file", "prompt"}

\* The command names a completion is asked for.
CommandNames == RegisteredCommands \cup {"promp"}

\* SlashCommandCompletionProvider::new:
\* cancel_flag: Mutex::new(Arc::new(AtomicBool::new(false)))
InitProvider ==
    /\ NoManager
    /\ NoLine
    /\ flags = <<FALSE>>
    /\ cancel_flag = 1
    /\ handed = {}
    /\ running = {}

\* The new flag is installed first and the store then cancels it.
CompleteCommandArgument_CancelsNew(command_name) ==
    /\ Len(flags) <= MaxCompletions
    /\ LET new_cancel_flag == Len(flags) + 1
       IN  /\ flags' = Append(flags, TRUE)
           /\ cancel_flag' = new_cancel_flag
           /\ IF command_name \in RegisteredCommands
              THEN /\ handed' = handed \cup {new_cancel_flag}
                   /\ running' = running \cup {new_cancel_flag}
              ELSE UNCHANGED <<handed, running>>
    /\ UNCHANGED <<managerVars, parseVars>>

\* complete_command_argument: a new flag is allocated, the flag the mutex
\* holds is set (flag.store(true, SeqCst)) and replaced by the new one
\* (*flag = new_cancel_flag.clone()); a registered command gets the new
\* flag and its completion task is spawned.
CompleteCommandArgument(command_name) ==
    /\ Len(flags) <= MaxCompletions
    /\ LET new_cancel_flag == Len(flags) + 1
       IN  /\ flags' = Append([flags EXCEPT ![cancel_flag] = TRUE], FALSE)
           /\ cancel_flag' = new_cancel_flag
           /\ IF command_name \in RegisteredCommands
              THEN /\ handed' = handed \cup {new_cancel_flag}
                   /\ running' = running \cup {new_cancel_flag}
              ELSE UNCHANGED <<handed, running>>
    /\ UNCHANGED <<managerVars, parseVars>>

\* The task spawned for a completion ends and drops its clone of the flag.
TaskEnds(f) ==
    /\ f \in running
    /\ running' = running \ {f}
    /\ UNCHANGED <<managerVars, parseVars, flags, cancel_flag, handed>>

NextProvider ==
    \/ \E command_name \in CommandNames :
           CompleteCommandArgument(command_name)
    \/ \E f \in running : TaskEnds(f)

SpecProvider == InitProvider /\ [][NextProvider]_vars

\* C25: every flag but the one the mutex holds is cancelled, so every flag
\* handed out earlier is, and at most one flag is not; each call cancels
\* the flag that was installed and installs a fresh flag that is false.
C25_CancelsPredecessor ==
    /\ [](/\ cancel_flag \in 1..Len(flags)
          /\ \A f \in 1..Len(flags) : f # cancel_flag => flags[f] = TRUE
          /\ \A f \in handed : f # cancel_flag => flags[f] = TRUE
          /\ Cardinality({ f \in 1..Len(flags) : flags[f] = FALSE }) <= 1)
    /\ [][cancel_flag' # cancel_flag
              => /\ flags'[cancel_flag] = TRUE
                 /\ cancel_flag' \notin 1..Len(flags)
                 /\ flags'[cancel_flag'] = FALSE
                 /\ \A f \in 1..Len(flags) :
                        f # cancel_flag => flags'[f] = flags[f]]_vars

\* Three completions were asked for: the task of an earlier one still runs
\* with its flag cancelled, and the flag installed last is not cancelled.
C25_Witness ==
    /\ Len(flags) = 4
    /\ flags[cancel_flag] = FALSE
    /\ cancel_flag \in handed
    /\ \E f \in running : f # cancel_flag /\ flags[f] = TRUE

\* ------------------------------ SlashCommandLine::parse (slash_command.rs)
\* The characters of a line: the slash, a space, a letter, a digit, the
\* letter U+00E9 (two bytes in UTF-8) and the space U+3000 (three bytes).
Chars == {"/", " ", "a", "7", "U+00E9", "U+3000"}

\* char::is_whitespace
IsWhitespace(c) == c \in {" ", "U+3000"}

\* char::is_alphabetic
IsAlphabetic(c) == c \in {"a", "U+00E9"}

\* char::len_utf8
LenUtf8(c) ==
    CASE c = "U+00E9" -> 2
      [] c = "U+3000" -> 3
      [] OTHER -> 1

\* The lines of at most MaxLen characters.
Lines == UNION { [1..n -> Chars] : n \in 0..MaxLen }

\* Range<usize> start..end and Range::is_empty
RangeOf(start, end) == [start |-> start, end |-> end]
IsEmpty(r) == r.start >= r.end

\* The locals of parse before the loop: call = None, ix = 0; `none` is set
\* by `return None`.
ParseStart == [call |-> <<>>, ix |-> 0, none |-> FALSE]

\* The first character of the name may be any character but whitespace.
ParseChar_AnyNameStart(st, c) ==
    LET next_ix == st.ix + LenUtf8(c)
        cl == st.call[1]
        a == cl.argument[1]
    IN  IF st.none THEN st
        ELSE IF st.call # <<>>
        THEN IF cl.argument # <<>>
             THEN LET moved == IF IsEmpty(a) /\ IsWhitespace(c)
                               THEN [a EXCEPT !.start = next_ix]
                               ELSE a
                  IN  [st EXCEPT
                          !.call = <<[cl EXCEPT !.argument =
                                         <<[moved EXCEPT !.end = next_ix]>>]>>,
                          !.ix = next_ix]
             ELSE IF ~IsEmpty(cl.name)
             THEN IF IsWhitespace(c)
                  THEN [st EXCEPT
                           !.call = <<[cl EXCEPT !.argument =
                                          <<RangeOf(next_ix, next_ix)>>]>>,
                           !.ix = next_ix]
                  ELSE [st EXCEPT
                           !.call = <<[cl EXCEPT !.name.end = next_ix]>>,
                           !.ix = next_ix]
             ELSE IF ~IsWhitespace(c)
             THEN [st EXCEPT !.call = <<[cl EXCEPT !.name.end = next_ix]>>,
                             !.ix = next_ix]
             ELSE [st EXCEPT !.none = TRUE]
        ELSE IF c = "/"
        THEN [st EXCEPT
                 !.call = <<[name |-> RangeOf(next_ix, next_ix),
                             argument |-> <<>>]>>,
                 !.ix = next_ix]
        ELSE IF ~IsWhitespace(c)
        THEN [st EXCEPT !.none = TRUE]
        ELSE [st EXCEPT !.ix = next_ix]

\* The argument starts right after the first whitespace character.
ParseChar_KeepsArgStart(st, c) ==
    LET next_ix == st.ix + LenUtf8(c)
        cl == st.call[1]
        a == cl.argument[1]
    IN  IF st.none THEN st
        ELSE IF st.call # <<>>
        THEN IF cl.argument # <<>>
             THEN LET moved == IF FALSE
                               THEN [a EXCEPT !.start = next_ix]
                               ELSE a
                  IN  [st EXCEPT
                          !.call = <<[cl EXCEPT !.argument =
                                         <<[moved EXCEPT !.end = next_ix]>>]>>,
                          !.ix = next_ix]
             ELSE IF ~IsEmpty(cl.name)
             THEN IF IsWhitespace(c)
                  THEN [st EXCEPT
                           !.call = <<[cl EXCEPT !.argument =
                                          <<RangeOf(next_ix, next_ix)>>]>>,
                           !.ix = next_ix]
                  ELSE [st EXCEPT
                           !.call = <<[cl EXCEPT !.name.end = next_ix]>>,
                           !.ix = next_ix]
             ELSE IF IsAlphabetic(c)
             THEN [st EXCEPT !.call = <<[cl EXCEPT !.name.end = next_ix]>>,
                             !.ix = next_ix]
             ELSE [st EXCEPT !.none = TRUE]
        ELSE IF c = "/"
        THEN [st EXCEPT
                 !.call = <<[name |-> RangeOf(next_ix, next_ix),
                             argument |-> <<>>]>>,
                 !.ix = next_ix]
        ELSE IF ~IsWhitespace(c)
        THEN [st EXCEPT !.none = TRUE]
        ELSE [st EXCEPT !.ix = next_ix]

\* The body of `for c in line.chars()` for one character.
ParseChar(st, c) ==
    LET next_ix == st.ix + LenUtf8(c)
        cl == st.call[1]
        a == cl.argument[1]
    IN  IF st.none THEN st
        ELSE IF st.call # <<>>
        THEN IF cl.argument # <<>>
             THEN LET moved == IF IsEmpty(a) /\ IsWhitespace(c)
                               THEN [a EXCEPT !.start = next_ix]
                               ELSE a
                  IN  [st EXCEPT
                          !.call = <<[cl EXCEPT !.argument =
                                         <<[moved EXCEPT !.end = next_ix]>>]>>,
                          !.ix = next_ix]
             ELSE IF ~IsEmpty(cl.name)
             THEN IF IsWhitespace(c)
                  THEN [st EXCEPT
                           !.call = <<[cl EXCEPT !.argument =
                                          <<RangeOf(next_ix, next_ix)>>]>>,
                           !.ix = next_ix]
                  ELSE [st EXCEPT
                           !.call = <<[cl EXCEPT !.name.end = next_ix]>>,
                           !.ix = next_ix]
             ELSE IF IsAlphabetic(c)
             THEN [st EXCEPT !.call = <<[cl EXCEPT !.name.end = next_ix]>>,
                             !.ix = next_ix]
             ELSE [st EXCEPT !.none = TRUE]
        ELSE IF c = "/"
        THEN [st EXCEPT
                 !.call = <<[name |-> RangeOf(next_ix, next_ix),
                             argument |-> <<>>]>>,
                 !.ix = next_ix]
        ELSE IF ~IsWhitespace(c)
        THEN [st EXCEPT !.none = TRUE]
        ELSE [st EXCEPT !.ix = next_ix]

\* The loop over the characters from the i-th on.
RECURSIVE ParseFrom(_, _, _)
ParseFrom(st, l, i) ==
    IF i > Len(l) THEN st ELSE ParseFrom(ParseChar(st, l[i]), l, i + 1)

\* SlashCommandLine::parse: None, or the call the loop has built.
SlashCommandLineParse(l) ==
    LET st == ParseFrom(ParseStart, l, 1)
    IN  IF st.none THEN <<>> ELSE st.call

\* A line is handed to parse.
InitParse ==
    /\ NoManager
    /\ NoProvider
    /\ line \in Lines
    /\ returned = FALSE
    /\ parsed = <<>>

\* parse returns.
ParseLine ==
    /\ ~returned
    /\ parsed' = SlashCommandLineParse(line)
    /\ returned' = TRUE
    /\ UNCHANGED <<managerVars, providerVars, line>>

NextParse == ParseLine

SpecParse == InitParse /\ [][NextParse]_vars

\* The byte offset of the i-th character of l (of the end of l for
\* i = Len(l) + 1).
RECURSIVE Offset(_, _)
Offset(l, i) == IF i <= 1 THEN 0 ELSE Offset(l, i - 1) + LenUtf8(l[i - 1])

\* The places of the slashes of l that have only whitespace before them.
CommandSlash(l) ==
    { s \in 1..Len(l) :
        l[s] = "/" /\ \A j \in 1..(s - 1) : IsWhitespace(l[j]) }

\* The places of the whitespace characters of l after place s.
WhitespaceAfter(l, s) == { j \in (s + 1)..Len(l) : IsWhitespace(l[j]) }

\* The least place of a non-empty set of places.
First(places) == CHOOSE j \in places : \A k \in places : j <= k

\* Where the name of the command after the slash at s ends: at the first
\* whitespace character, or at the end of the line.
NameEnd(l, s) ==
    IF WhitespaceAfter(l, s) = {}
    THEN Offset(l, Len(l) + 1)
    ELSE Offset(l, First(WhitespaceAfter(l, s)))

\* C26 as stated: whenever parse returns a command, the text before the
\* slash is whitespace and the name is non-empty, starts right after the
\* slash with a letter and ends at the first whitespace or the line's end.
C26_CommandShape_NonEmptyName ==
    (returned /\ parsed # <<>>)
        => \E s \in CommandSlash(line) :
               /\ parsed[1].name.start = Offset(line, s + 1)
               /\ parsed[1].name.end = NameEnd(line, s)
               /\ ~IsEmpty(parsed[1].name)
               /\ s < Len(line)
               /\ IsAlphabetic(line[s + 1])

\* C26: whenever parse returns a command, the text before the slash is
\* whitespace and the name starts right after the slash and ends at the
\* first whitespace or the line's end; the name is empty exactly when the
\* slash ends the line, and otherwise it starts with a letter.
C26_CommandShape ==
    (returned /\ parsed # <<>>)
        => \E s \in CommandSlash(line) :
               /\ parsed[1].name.start = Offset(line, s + 1)
               /\ parsed[1].name.end = NameEnd(line, s)
               /\ IsEmpty(parsed[1].name) <=> s = Len(line)
               /\ s < Len(line) => IsAlphabetic(line[s + 1])

\* parse has returned a command whose name starts with the two-byte
\* letter, after a wide space before the slash.
C26_Witness ==
    /\ returned
    /\ parsed # <<>>
    /\ Len(line) >= 4
    /\ line[1] = "U+3000"
    /\ line[2] = "/"
    /\ line[3] = "U+00E9"
    /\ line[4] = "7"
    /\ parsed[1].name = RangeOf(4, 7)

\* C27: a returned command has an argument exactly when a whitespace
\* character follows its name; the argument starts at the first character
\* after the name that is not whitespace (at the line's end when there is
\* none) and ends at the line's end; the name ends before the argument
\* starts and both ranges lie within the line.
C27_ArgumentRange ==
    (returned /\ parsed # <<>>)
        => \E s \in CommandSlash(line) :
             LET ws == WhitespaceAfter(line, s)
                 end == Offset(line, Len(line) + 1)
                 name == parsed[1].name
             IN  /\ parsed[1].argument # <<>> <=> ws # {}
                 /\ 0 <= name.start /\ name.start <= name.end
                 /\ name.end <= end
                 /\ parsed[1].argument # <<>>
                      => LET arg == parsed[1].argument[1]
                             rest == { j \in (First(ws) + 1)..Len(line) :
                                         ~IsWhitespace(line[j]) }
                         IN  /\ arg.start = IF rest = {} THEN end
                                            ELSE Offset(line, First(rest))
                             /\ arg.end = end
                             /\ name.end < arg.start
                             /\ arg.start <= arg.end

\* parse has returned an argument that starts after two whitespace
\* characters and runs over a later one to the end of the line.
C27_Witness ==
    /\ returned
    /\ parsed # <<>>
    /\ line = <<"/", "a", " ", "U+3000", "7">>
    /\ parsed[1].name = RangeOf(1, 2)
    /\ parsed[1].argument = <<RangeOf(6, 7)>>

====
